---- MODULE Spec2Model ----
(***************************************************************************)
(* Model of the Nethunter installer: the three main() programs of the      *)
(* repository (the OnePlus 5 factory-sideload installer of src/main.go,    *)
(* the fixed OnePlus One installer and the table-driven multi-device       *)
(* installer of src/remote/nh.go).  Each main() is a straight-line         *)
(* procedure; a state is the position in the procedure (pc), the program   *)
(* variables that are read later, the local files the run has looked at,   *)
(* and the history of the calls the run has issued (trace).  The adb and   *)
(* fastboot clients, the operator and the network are the environment:     *)
(* every call returns any of its possible results.                         *)
(***************************************************************************)
EXTENDS Integers, Sequences, FiniteSets

(* ---------------------------------------------------------------------- *)
(* Bounds of the model                                                     *)
(* ---------------------------------------------------------------------- *)
\* the device registry read at start-up holds at most MaxDevices profiles
MaxDevices == 3
\* at most MaxMissing of the artifact files are absent from the work dir
MaxMissing == 1

(* ---------------------------------------------------------------------- *)
(* Exit codes                                                              *)
(* ---------------------------------------------------------------------- *)
SuccessBase == 2^5 + 0
SuccessUserAbort == 2^5 + 1
SuccessBootloaderUnlocked == 2^5 + 2
Success == 0

ErrorBase == 2^6 + 0
\* the error codes counted from the base of the success codes
ErrorPrereqsFromSuccessBase == 2^5 + 1
ErrorPrereqs == 2^6 + 1
ErrorUserInput == 2^6 + 2
ErrorUsbPerms == 2^6 + 3
ErrorAdb == 2^6 + 4
ErrorFastboot == 2^6 + 5
ErrorRemote == 2^6 + 6
ErrorTWRP == 2^6 + 7

\* exit(1) of "Device config not found! Bye."
ExitNoConfig == 1
\* log.Fatal(err) ends the process with status 1
ExitLogFatal == 1
\* an uncaught panic(err) ends the process with status 2
ExitPanic == 2

(* ---------------------------------------------------------------------- *)
(* Device status enumeration of the two control-planes                     *)
(* ---------------------------------------------------------------------- *)
NoDeviceFound == "NoDeviceFound"
DeviceUnauthorized == "DeviceUnauthorized"
NoUsbPerms == "NoUsbPerms"
DeviceFound == "DeviceFound"
Statuses == {NoDeviceFound, DeviceUnauthorized, NoUsbPerms, DeviceFound}
\* value of the status variable when no status is held
NoStatus == ""

(* ---------------------------------------------------------------------- *)
(* The three programs                                                      *)
(* ---------------------------------------------------------------------- *)
Sideload == "sideload"
Fixed == "fixed"
Multi == "multi"
Variants == {Sideload, Fixed, Multi}

(* ---------------------------------------------------------------------- *)
(* Device profiles                                                         *)
(* ---------------------------------------------------------------------- *)
\* one entry of the devices configuration; an unset field is ""
Device(cn, pn, ef, eu, of, ou, ff, fu, gf, gu, tf, tu) ==
    [Common_name |-> cn, Product_name |-> pn,
     Extra_file |-> ef, Extra_url |-> eu,
     Nhos_file |-> of, Nhos_url |-> ou,
     Nhfs_file |-> ff, Nhfs_url |-> fu,
     Gapps_file |-> gf, Gapps_url |-> gu,
     Twrp_file |-> tf, Twrp_url |-> tu]

\* the zero value device{} returned when no profile is found
NoDevice == Device("", "", "", "", "", "", "", "", "", "", "", "")

\* the artifacts hard-coded in the OnePlus One installer
BaconDevice ==
    Device("OnePlus One", "MSM8974", "", "",
           "nethunter_bacon-ota-49a0f7db4a.zip",
           "https://build.nethunter.com/misc/oneplus1-installer/nethunter_bacon-ota-49a0f7db4a.zip",
           "nethunter-generic-armhf-kalifs-full-bsideme.zip",
           "https://build.nethunter.com/misc/oneplus1-installer/nethunter-generic-armhf-kalifs-full-bsideme.zip",
           "open_gapps-arm-7.1-mini-20170901.zip",
           "https://build.nethunter.com/misc/oneplus1-installer/open_gapps-arm-7.1-mini-20170901.zip",
           "twrp-3.1.1-0-bacon.img",
           "https://dl.twrp.me/bacon/twrp-3.1.1-0-bacon.img")

\* the artifacts hard-coded in the OnePlus 5 factory-sideload installer
nhzip == "nethunter-oneplus5-oos-nougat-kalifs-full-20170828_192201.zip"
nhzipurl == "https://build.nethunter.com/misc/nethunter-oneplus5-oos-nougat-kalifs-full-20170828_192201.zip"
oxygenrecovery == "OP5_recovery.img"
recoveryimgurl == "http://oxygenos.oneplus.net.s3.amazonaws.com/OP5_recovery.img"
factory == "OnePlus5Oxygen_23_OTA_013_all_1708032241_1213265a0ad04ecf.zip"
oxygenurl == "http://oxygenos.oneplus.net.s3.amazonaws.com/OnePlus5Oxygen_23_OTA_013_all_1708032241_1213265a0ad04ecf.zip"
twrp == "twrp-3.1.1-1-cheeseburger.img"
twrpurl == "https://dl.twrp.me/cheeseburger/twrp-3.1.1-1-cheeseburger.img"

\* the identifier every OnePlus bootloader of the family reports
QCReference == "QC_Reference_Phone"

\* the entries of the device selection menu, in the order they are offered
MenuOptions == <<"OnePlus 5", "OnePlus 2", "OnePlus 1">>
\* the entry flagged as the menu's default
MenuDefault == 1

(* Profiles a devices configuration may hold.  The three Q profiles are    *)
(* registered under the shared bootloader identifier; the three L profiles *)
(* are registered under the name the selection menu hands back.  Between   *)
(* them the profiles cover every combination of a set/unset extra file and *)
(* extra URL, and a profile with no companion bundle.                      *)
Q5 == Device("OnePlus 5", QCReference, "", "",
             "q5-nhos.zip", "https://build.nethunter.com/q5-nhos.zip",
             "q5-kalifs.zip", "https://build.nethunter.com/q5-kalifs.zip",
             "q5-gapps.zip", "https://build.nethunter.com/q5-gapps.zip",
             "q5-twrp.img", "https://dl.twrp.me/q5-twrp.img")
Q2 == Device("OnePlus 2", QCReference, "", "",
             "q2-nhos.zip", "https://build.nethunter.com/q2-nhos.zip",
             "q2-kalifs.zip", "https://build.nethunter.com/q2-kalifs.zip",
             "q2-gapps.zip", "https://build.nethunter.com/q2-gapps.zip",
             "q2-twrp.img", "https://dl.twrp.me/q2-twrp.img")
Q1 == Device("OnePlus 1", QCReference, "", "",
             "q1-nhos.zip", "https://build.nethunter.com/q1-nhos.zip",
             "q1-kalifs.zip", "https://build.nethunter.com/q1-kalifs.zip",
             "q1-gapps.zip", "https://build.nethunter.com/q1-gapps.zip",
             "q1-twrp.img", "https://dl.twrp.me/q1-twrp.img")
L5 == Device("OnePlus 5", "OnePlus 5",
             "l5-firmware.zip", "https://build.nethunter.com/l5-firmware.zip",
             "l5-nhos.zip", "https://build.nethunter.com/l5-nhos.zip",
             "l5-kalifs.zip", "https://build.nethunter.com/l5-kalifs.zip",
             "l5-gapps.zip", "https://build.nethunter.com/l5-gapps.zip",
             "l5-twrp.img", "https://dl.twrp.me/l5-twrp.img")
L2 == Device("OnePlus 2", "OnePlus 2",
             "l2-firmware.zip", "",
             "l2-nhos.zip", "https://build.nethunter.com/l2-nhos.zip",
             "l2-kalifs.zip", "https://build.nethunter.com/l2-kalifs.zip",
             "l2-gapps.zip", "https://build.nethunter.com/l2-gapps.zip",
             "l2-twrp.img", "https://dl.twrp.me/l2-twrp.img")
L1 == Device("OnePlus 1", "OnePlus 1",
             "", "https://build.nethunter.com/l1-firmware.zip",
             "l1-nhos.zip", "https://build.nethunter.com/l1-nhos.zip",
             "l1-kalifs.zip", "https://build.nethunter.com/l1-kalifs.zip",
             "", "",
             "l1-twrp.img", "https://dl.twrp.me/l1-twrp.img")

\* the device table the registries are cut from
KnownDevices == <<BaconDevice, Q5, Q2, Q1, L5, L2, L1>>

\* a registry is a run of at most MaxDevices consecutive entries of the table
Registries ==
    {SubSeq(KnownDevices, w[1], w[2]) :
        w \in {v \in (1..Len(KnownDevices)) \X (0..Len(KnownDevices)) :
                  v[2] >= v[1] - 1 /\ v[2] - v[1] + 1 <= MaxDevices}}

\* identifiers a bootloader may report
Products == {"MSM8974", QCReference, "bullhead"}

\* the local file a download of url writes: the last element of its path
UrlTable ==
    {<<d.Extra_url, d.Extra_file>> : d \in {L5}} \cup
    {<<d.Nhos_url, d.Nhos_file>> : d \in {BaconDevice, Q5, Q2, Q1, L5, L2, L1}} \cup
    {<<d.Nhfs_url, d.Nhfs_file>> : d \in {BaconDevice, Q5, Q2, Q1, L5, L2, L1}} \cup
    {<<d.Gapps_url, d.Gapps_file>> : d \in {BaconDevice, Q5, Q2, Q1, L5, L2}} \cup
    {<<d.Twrp_url, d.Twrp_file>> : d \in {BaconDevice, Q5, Q2, Q1, L5, L2, L1}} \cup
    {<<"https://build.nethunter.com/l1-firmware.zip", "l1-firmware.zip">>,
     <<nhzipurl, nhzip>>, <<recoveryimgurl, oxygenrecovery>>,
     <<oxygenurl, factory>>, <<twrpurl, twrp>>}
UrlFile(url) == (CHOOSE p \in UrlTable : p[1] = url)[2]

(* ---------------------------------------------------------------------- *)
(* State                                                                   *)
(* ---------------------------------------------------------------------- *)
VARIABLES
    variant,      \* which of the three main() programs runs
    nhDevices,    \* the registry read by readDevicesConfig (Multi)
    pc,           \* the stage main() is about to execute, "exited" at the end
    cycle,        \* 1 before the first-phase reboot, 2 after it
    exitCode,     \* the process exit status, meaningful when pc = "exited"
    trace,        \* the calls issued so far, in order
    status,       \* the device status held from the last status query
    productName,  \* the identifier used to look the device up
    currDevice,   \* the profile the run is committed to
    fsPresent,    \* local files known to exist
    fsMissing     \* local files found missing when first looked at

vars == <<variant, nhDevices, pc, cycle, exitCode, trace, status,
          productName, currDevice, fsPresent, fsMissing>>

\* one issued call: the operation, its argument, the file it names, what it
\* returned (where the run keeps it) and whether it succeeded
Ev(op, arg, file, res, ok) ==
    [op |-> op, arg |-> arg, file |-> file, res |-> res, ok |-> ok]

\* operations of the two control-planes
StatusOps == {"adb.Status", "fastboot.Status"}
QueryOps == StatusOps \cup {"fastboot.GetProduct", "fastboot.Unlocked"}
MutatingOps == {"adb.Reboot", "adb.Shell", "adb.PushFg", "adb.Sideload",
                "fastboot.Unlock", "fastboot.Reboot",
                "fastboot.FlashRecovery", "fastboot.Boot"}
ControlOps == QueryOps \cup MutatingOps

\* a step of a stage: a call that aborts the run with code when it fails
Cmd(op, arg, file, code) ==
    [op |-> op, arg |-> arg, file |-> file, fallible |-> TRUE, code |-> code]
\* a step that cannot fail: a sleep or an operator acknowledgement
Wait(op, arg) ==
    [op |-> op, arg |-> arg, file |-> "", fallible |-> FALSE, code |-> Success]

Goto(next) == pc' = next /\ exitCode' = exitCode
exit(code) == pc' = "exited" /\ exitCode' = code
Emit(evs) == trace' = trace \o evs

\* after the calls pre, run the steps in order: the first step that fails
\* ends the run with its code, otherwise the run continues with cont
RunAfter(pre, steps, cont) ==
    \E n \in 0..Len(steps) :
        /\ n < Len(steps) => steps[n + 1].fallible
        /\ Emit(pre \o [i \in 1..(IF n < Len(steps) THEN n + 1 ELSE n) |->
                    Ev(steps[i].op, steps[i].arg, steps[i].file, "", i <= n)])
        /\ IF n = Len(steps) THEN cont ELSE exit(steps[n + 1].code)

Run(steps, cont) == RunAfter(<<>>, steps, cont)

\* the profile the installation stages work with
Profile == IF variant = Multi THEN currDevice ELSE BaconDevice

(* ---------------------------------------------------------------------- *)
(* Start-up                                                                *)
(* ---------------------------------------------------------------------- *)
Init ==
    /\ variant \in Variants
    /\ nhDevices \in (IF variant = Multi THEN Registries ELSE {<<>>})
    /\ pc = "start"
    /\ cycle = 1
    /\ exitCode = Success
    /\ trace = <<>>
    /\ status = NoStatus
    /\ productName = ""
    /\ currDevice = NoDevice
    /\ fsPresent = {}
    /\ fsMissing = {}

\* flag parsing and the PATH set-up that precede the welcome message
Start ==
    /\ pc = "start"
    /\ \/ exit(Success)          \* -version
       \/ exit(ExitPanic)        \* os.Executable failed
       \/ exit(ErrorPrereqs)     \* os.Setenv failed
       \/ Goto("ready")
    /\ UNCHANGED <<variant, nhDevices, cycle, trace, status, productName,
                   currDevice, fsPresent, fsMissing>>

\* what the operator may type at the ready-to-install prompt
Answers == {"yes", "no", "y", "Yes", ""}

\* an answer that is not exactly "yes" declines
DeclinedOnlyNo(answer) == answer = "no"
Declined(answer) == "yes" # answer

\* "Are you ready to install Nethunter? (yes/no): "
ReadyPrompt ==
    /\ pc = "ready"
    /\ \/ /\ Emit(<<Ev("reader.ReadLine", "", "", "", FALSE)>>)
          /\ exit(ErrorUserInput)
       \/ \E answer \in Answers :
            /\ Emit(<<Ev("reader.ReadLine", "", "", answer, TRUE)>>)
            /\ IF Declined(answer) THEN exit(SuccessUserAbort)
                                 ELSE Goto("verifyTools")
    /\ UNCHANGED <<variant, nhDevices, cycle, status, productName,
                   currDevice, fsPresent, fsMissing>>

\* "Verifying installer tools...": both clients must answer a status query
VerifyTools ==
    /\ pc = "verifyTools"
    /\ Run(<<Cmd("adb.Status", "", "", ErrorPrereqs),
             Cmd("fastboot.Status", "", "", ErrorPrereqs)>>,
           Goto("modeDetect"))
    /\ UNCHANGED <<variant, nhDevices, cycle, status, productName,
                   currDevice, fsPresent, fsMissing>>

(* ---------------------------------------------------------------------- *)
(* Mode detection                                                          *)
(* ---------------------------------------------------------------------- *)
\* a user-mode verification that does not look at the query's error
verifyAdbStatusIgnoresError(st, err) ==
    IF st = NoDeviceFound \/ st = DeviceUnauthorized THEN {ErrorAdb}
    ELSE IF st = NoUsbPerms THEN {ErrorUsbPerms}
    ELSE {}

\* verifyAdbStatusOrAbort: the exit codes it aborts with, {} when it returns
verifyAdbStatusOrAbort(st, err) ==
    IF err THEN {ErrorAdb}
    ELSE IF st = NoDeviceFound \/ st = DeviceUnauthorized THEN {ErrorAdb}
    ELSE IF st = NoUsbPerms THEN {ErrorUsbPerms}
    ELSE {}

\* verifyFastbootStatusOrAbort: likewise
verifyFastbootStatusOrAbort(st, err) ==
    IF err THEN {ErrorFastboot}
    ELSE IF st = NoDeviceFound THEN {ErrorFastboot}
    ELSE IF st = NoUsbPerms THEN {ErrorUsbPerms}
    ELSE {}

CodeOf(verdict) == CHOOSE c \in verdict : TRUE

\* mode detection repeated until the device shows up
AfterModeDetectLoops == "modeDetect"
\* where the run continues once the device is in the bootloader
AfterModeDetect == IF cycle = 1 THEN "verifyFastboot" ELSE "flashTwrp"

\* "Checking USB permissions...": status, _ := fastboot.Status()
ModeDetect ==
    /\ pc = "modeDetect"
    /\ \E st \in Statuses, ok \in BOOLEAN :
        /\ Emit(<<Ev("fastboot.Status", "", "", "", ok)>>)
        /\ status' = st
        /\ Goto(IF st = NoDeviceFound THEN "rebootBootloader"
                                      ELSE AfterModeDetect)
    /\ UNCHANGED <<variant, nhDevices, cycle, productName, currDevice,
                   fsPresent, fsMissing>>

\* the settle wait after the reboot request, in milliseconds
SettleWait == "7000"

\* the poll after the settle wait fails the run
PollFailedIgnoresError(st, err) == st = NoDeviceFound
PollFailed(st, err) == err \/ st = NoDeviceFound

\* a mode detection that keeps waiting for the device to show up
AwaitBootloader ==
    /\ pc = "rebootBootloader"
    /\ UNCHANGED vars

\* the user-mode branch of mode detection: verify adb, reboot into the
\* bootloader, wait, poll the bootloader once
RebootToBootloader ==
    /\ pc = "rebootBootloader"
    /\ \E ast \in Statuses, aerr \in BOOLEAN :
        LET v == verifyAdbStatusOrAbort(ast, aerr)
            verify == Ev("adb.Status", "", "", "", ~aerr)
        IN IF v # {}
           THEN /\ Emit(<<verify>>)
                /\ status' = ast
                /\ exit(CodeOf(v))
           ELSE \/ /\ Emit(<<verify,
                            Ev("adb.Reboot", "bootloader", "", "", FALSE)>>)
                   /\ status' = ast
                   /\ exit(ErrorAdb)
                \/ \E st \in Statuses, err \in BOOLEAN :
                   /\ Emit(<<verify,
                            Ev("adb.Reboot", "bootloader", "", "", TRUE),
                            Ev("time.Sleep", SettleWait, "", "", TRUE),
                            Ev("fastboot.Status", "", "", "", ~err)>>)
                   /\ status' = st
                   /\ IF PollFailed(st, err)
                      THEN exit(ErrorAdb)
                      ELSE Goto(AfterModeDetect)
    /\ UNCHANGED <<variant, nhDevices, cycle, productName, currDevice,
                   fsPresent, fsMissing>>

\* "We are in fastboot mode (the bootloader)."
VerifyFastboot ==
    /\ pc = "verifyFastboot"
    /\ \E st \in Statuses, err \in BOOLEAN :
        LET v == verifyFastbootStatusOrAbort(st, err)
        IN /\ Emit(<<Ev("fastboot.Status", "", "", "", ~err)>>)
           /\ status' = st
           /\ IF v # {} THEN exit(CodeOf(v)) ELSE Goto("identify")
    /\ UNCHANGED <<variant, nhDevices, cycle, productName, currDevice,
                   fsPresent, fsMissing>>

(* ---------------------------------------------------------------------- *)
(* Identification                                                          *)
(* ---------------------------------------------------------------------- *)
\* what the operator may type at the device selection menu
MenuInputs == {"0", "1", "2", "", "x"}

\* the position of the menu entry an input selects, 0 when the input is
\* rejected; an empty line selects the entry flagged as default
MenuChoice(input) ==
    CASE input = "0" -> 1
      [] input = "1" -> 2
      [] input = "2" -> 3
      [] input = ""  -> MenuDefault
      [] OTHER       -> 0

\* the name the device is looked up under once the operator chose entry k of
\* the menu: productName = opts[0].Text
SelectedName(k) == MenuOptions[k]

\* the profile registered under the identifier name, the zero device when
\* there is none or when the identifier does not determine one profile
findDeviceConfig(devices, name) ==
    LET hits == {i \in 1..Len(devices) : devices[i].Product_name = name}
    IN IF Cardinality(hits) = 1
       THEN devices[CHOOSE i \in hits : TRUE]
       ELSE NoDevice

\* "OnePlus uses the same board name for every device.  Need to let user
\* select"
NeedsSelectionNever(prod) == FALSE
NeedsSelection(prod) == prod = QCReference

\* "Identifying your device...": fastboot.GetProduct(), and in the
\* multi-device installer the selection menu for the shared identifier
Identify ==
    /\ pc = "identify"
    /\ status' = NoStatus
    /\ \E prod \in Products \cup {""}, err \in BOOLEAN :
        /\ err => prod \in {"", QCReference}
        /\ ~err => prod \in Products
        /\ LET get == Ev("fastboot.GetProduct", "", "", prod, ~err)
           IN IF variant = Multi /\ NeedsSelection(prod)
              THEN \E input \in MenuInputs :
                     LET k == MenuChoice(input)
                     IN IF k = 0
                        THEN /\ Emit(<<get, Ev("menu.Run", input, "", "", FALSE)>>)
                             /\ productName' = prod
                             /\ exit(ExitLogFatal)
                        ELSE /\ Emit(<<get, Ev("menu.Run", input, "",
                                              SelectedName(k), TRUE)>>)
                             /\ productName' = SelectedName(k)
                             /\ IF err THEN exit(ErrorFastboot)
                                       ELSE Goto("findDevice")
              ELSE /\ Emit(<<get>>)
                   /\ productName' = prod
                   /\ IF err THEN exit(ErrorFastboot)
                      ELSE Goto(IF variant = Multi THEN "findDevice"
                                                   ELSE "unlockCheck")
    /\ UNCHANGED <<variant, nhDevices, cycle, currDevice, fsPresent, fsMissing>>

\* currDevice := findDeviceConfig(nhDevices, productName), and the check
\* that a configuration was found
FindDevice ==
    /\ pc = "findDevice"
    /\ LET d == findDeviceConfig(nhDevices, productName)
       IN /\ currDevice' = d
          /\ Emit(<<Ev("findDeviceConfig", productName, "", d.Common_name,
                       d.Common_name # "")>>)
          /\ IF d.Common_name # "" THEN Goto("unlockCheck")
                                   ELSE exit(ExitNoConfig)
    /\ UNCHANGED <<variant, nhDevices, cycle, status, productName,
                   fsPresent, fsMissing>>

(* ---------------------------------------------------------------------- *)
(* Bootloader unlock check                                                 *)
(* ---------------------------------------------------------------------- *)
\* the first staging stage of each program
FirstStage ==
    CASE variant = Multi -> "stageExtra"
      [] variant = Fixed -> "stageNhos"
      [] variant = Sideload -> "stageNhzip"

\* a freshly unlocked device ends the run
AfterUnlockContinues == Goto(FirstStage)
AfterUnlock == exit(SuccessBootloaderUnlocked)

\* whether the run unlocks, given what fastboot.Unlocked() returned
MustUnlock(unlocked, err) == ~unlocked

\* unlocked, err := fastboot.Unlocked(); a failed query only warns
UnlockCheck ==
    /\ pc = "unlockCheck"
    /\ \E unlocked \in BOOLEAN, err \in BOOLEAN :
        LET pre == (IF variant = Multi
                    THEN <<Ev("waitForOpKey", "unlock check", "", "", TRUE)>>
                    ELSE <<>>) \o
                   <<Ev("fastboot.Unlocked", "", "",
                        IF unlocked THEN "true" ELSE "false", ~err)>>
        IN IF MustUnlock(unlocked, err)
           THEN \/ /\ Emit(pre \o <<Ev("fastboot.Unlock", "", "", "", FALSE)>>)
                   /\ exit(ErrorFastboot)
                \/ \E rebooted \in BOOLEAN :
                   /\ Emit(pre \o <<Ev("fastboot.Unlock", "", "", "", TRUE),
                                    Ev("fastboot.Reboot", "", "", "", rebooted)>>)
                   /\ AfterUnlock
           ELSE /\ Emit(pre)
                /\ Goto(FirstStage)
    /\ UNCHANGED <<variant, nhDevices, cycle, status, productName, currDevice,
                   fsPresent, fsMissing>>

(* ---------------------------------------------------------------------- *)
(* Staging of the artifacts                                                *)
(* ---------------------------------------------------------------------- *)
\* os.Stat(file) may report the file present
MayBePresent(file) ==
    /\ file # ""
    /\ file \in fsPresent \/ file \notin fsMissing

\* os.Stat(file) may report the file missing
MayBeMissing(file) ==
    \/ file = ""
    \/ file \in fsMissing \ fsPresent
    \/ /\ file \notin fsPresent \cup fsMissing
       /\ Cardinality(fsMissing) < MaxMissing

\* if _, err := os.Stat(file); os.IsNotExist(err) { remote.DownloadURL(url) }
\* The result of the download is not looked at.
Stage(file, url, next) ==
    /\ Goto(next)
    /\ \/ /\ MayBePresent(file)
          /\ Emit(<<Ev("os.Stat", "", file, "present", TRUE)>>)
          /\ fsPresent' = fsPresent \cup {file}
          /\ fsMissing' = fsMissing
       \/ /\ MayBeMissing(file)
          /\ fsMissing' = fsMissing \cup ({file} \ {""})
          /\ \E ok \in BOOLEAN :
                /\ ok => url # ""
                /\ Emit(<<Ev("os.Stat", "", file, "missing", TRUE),
                          Ev("remote.DownloadURL", url, "", "", ok)>>)
                /\ fsPresent' = IF ok THEN fsPresent \cup {UrlFile(url)}
                                      ELSE fsPresent

\* "Check if there is any other extra files we need to get"
StageExtra ==
    /\ pc = "stageExtra"
    /\ IF currDevice.Extra_file # "" /\ currDevice.Extra_url # ""
       THEN Stage(currDevice.Extra_file, currDevice.Extra_url, "stageNhos")
       ELSE Goto("stageNhos") /\ UNCHANGED <<trace, fsPresent, fsMissing>>
    /\ UNCHANGED <<variant, nhDevices, cycle, status, productName, currDevice>>

\* "Request nethunter OS"
StageNhos ==
    /\ pc = "stageNhos"
    /\ Stage(Profile.Nhos_file, Profile.Nhos_url, "stageNhfs")
    /\ UNCHANGED <<variant, nhDevices, cycle, status, productName, currDevice>>

\* "Request nethunter generic fileysstem"
StageNhfs ==
    /\ pc = "stageNhfs"
    /\ Stage(Profile.Nhfs_file, Profile.Nhfs_url, "stageGapps")
    /\ UNCHANGED <<variant, nhDevices, cycle, status, productName, currDevice>>

\* "Request gapps"
StageGapps ==
    /\ pc = "stageGapps"
    /\ Stage(Profile.Gapps_file, Profile.Gapps_url, "stageTwrp")
    /\ UNCHANGED <<variant, nhDevices, cycle, status, productName, currDevice>>

\* "Download TWRP"
StageTwrp ==
    /\ pc = "stageTwrp"
    /\ Stage(Profile.Twrp_file, Profile.Twrp_url, "flashRecovery")
    /\ UNCHANGED <<variant, nhDevices, cycle, status, productName, currDevice>>

\* the factory-sideload installer: "Request nethunter"
StageNhzip ==
    /\ pc = "stageNhzip"
    /\ Stage(nhzip, nhzipurl, "stageOxygenRecovery")
    /\ UNCHANGED <<variant, nhDevices, cycle, status, productName, currDevice>>

\* "Download Recovery Image"
StageOxygenRecovery ==
    /\ pc = "stageOxygenRecovery"
    /\ Stage(oxygenrecovery, recoveryimgurl, "stageFactory")
    /\ UNCHANGED <<variant, nhDevices, cycle, status, productName, currDevice>>

\* "Download Factory Image"
StageFactory ==
    /\ pc = "stageFactory"
    /\ Stage(factory, oxygenurl, "stageTwrpSideload")
    /\ UNCHANGED <<variant, nhDevices, cycle, status, productName, currDevice>>

\* "Download TWRP": the file looked at is the factory image
StageTwrpSideload ==
    /\ pc = "stageTwrpSideload"
    /\ Stage(factory, twrpurl, "flashOxygen")
    /\ UNCHANGED <<variant, nhDevices, cycle, status, productName, currDevice>>

(* ---------------------------------------------------------------------- *)
(* Installation, stage-then-install programs                               *)
(* ---------------------------------------------------------------------- *)
Sleep(ms) == Wait("time.Sleep", ms)
OpKey(msg) == Wait(IF variant = Multi THEN "waitForOpKey" ELSE "ReadBytes", msg)
Shell(cmd, file) == Cmd("adb.Shell", cmd, file, ErrorTWRP)
\* a transfer classified like the shell commands around it
PushAsShell(file) == Cmd("adb.PushFg", "/sdcard", file, ErrorTWRP)
Push(file) == Cmd("adb.PushFg", "/sdcard", file, ErrorAdb)

\* whether the profile declares an extra payload to transfer and install
HasExtraAlways == variant = Multi
HasExtra == variant = Multi /\ Profile.Extra_file # ""

\* "Flash TWRP recovery"
FlashRecovery ==
    /\ pc = "flashRecovery"
    /\ Run((IF variant = Multi THEN <<OpKey("start the installation")>>
                               ELSE <<Sleep("10000"), Sleep("30000")>>) \o
           <<Cmd("fastboot.FlashRecovery", "", Profile.Twrp_file, ErrorTWRP)>>,
           Goto("bootRecovery"))
    /\ UNCHANGED <<variant, nhDevices, cycle, status, productName, currDevice,
                   fsPresent, fsMissing>>

\* "Boot into twrp", then wait for TWRP
BootRecovery ==
    /\ pc = "bootRecovery"
    /\ Run(<<Cmd("fastboot.Boot", "", Profile.Twrp_file, ErrorTWRP),
             IF variant = Multi THEN OpKey("TWRP is fully loaded")
                                ELSE Sleep("20000")>>,
           Goto("wipe"))
    /\ UNCHANGED <<variant, nhDevices, cycle, status, productName, currDevice,
                   fsPresent, fsMissing>>

\* "Start fresh": the wipes that precede the transfer
PreInstallWipes ==
    <<Sleep("1000"), Shell("twrp wipe dalvik", ""),
      Sleep("1000"), Shell("twrp wipe data", ""),
      Sleep("1000"), Shell("twrp wipe system", "")>>

PreInstallWipe ==
    /\ pc = "wipe"
    /\ Run(PreInstallWipes, Goto("push"))
    /\ UNCHANGED <<variant, nhDevices, cycle, status, productName, currDevice,
                   fsPresent, fsMissing>>

\* the transfers without the one of the filesystem payload
PushesWithoutFilesystem ==
    (IF HasExtra THEN <<Push(Profile.Extra_file)>> ELSE <<>>) \o
    <<Push(Profile.Nhos_file), Push(Profile.Gapps_file)>>

\* the transfers to /sdcard, in the order they are issued
Pushes ==
    (IF HasExtra THEN <<Push(Profile.Extra_file)>> ELSE <<>>) \o
    <<Push(Profile.Nhos_file), Push(Profile.Nhfs_file), Push(Profile.Gapps_file)>>

PushPayloads ==
    /\ pc = "push"
    /\ Run(Pushes, Goto("install"))
    /\ UNCHANGED <<variant, nhDevices, cycle, status, productName, currDevice,
                   fsPresent, fsMissing>>

\* "Extras should be installed first", then the OS payload
InstallsExtraLast ==
    <<Shell("twrp install /sdcard/", Profile.Nhos_file)>> \o
    (IF HasExtra THEN <<Shell("twrp install /sdcard/", Profile.Extra_file)>>
                 ELSE <<>>)
Installs ==
    (IF HasExtra THEN <<Shell("twrp install /sdcard/", Profile.Extra_file)>>
                 ELSE <<>>) \o
    <<Shell("twrp install /sdcard/", Profile.Nhos_file)>>

InstallPayloads ==
    /\ pc = "install"
    /\ Run(Installs, Goto("installGapps"))
    /\ UNCHANGED <<variant, nhDevices, cycle, status, productName, currDevice,
                   fsPresent, fsMissing>>

\* what the operator may type at the "Install Gapps?" yes/no menu
YesNoInputs == {"y", "n", "", "x"}

\* the ID of the yes/no entry an input selects (0 yes, 1 no), 2 when the
\* input is rejected; IsYesNo(0) makes yes the default
YesNoChoice(input) ==
    CASE input = "y" -> 0
      [] input = "n" -> 1
      [] input = ""  -> 0
      [] OTHER       -> 2

\* the menu action installs the bundle for the entry with this ID:
\* if opts[0].ID == 0
InstallsGappsAlways(id) == TRUE
\* a menu action that installs the bundle for no entry
InstallsGappsNever(id) == FALSE
InstallsGapps(id) == id = 0

\* "Install gapps?": asked in the multi-device installer, always installed
\* in the fixed one
InstallGapps ==
    /\ pc = "installGapps"
    /\ LET gapps == Shell("twrp install /sdcard/", Profile.Gapps_file)
       IN IF variant = Multi
          THEN \E input \in YesNoInputs :
                 LET id == YesNoChoice(input)
                     answer == Ev("menu.Run", input, "Install Gapps?",
                                  IF id = 0 THEN "yes" ELSE "no", TRUE)
                 IN CASE id \in {0, 1} ->
                           IF InstallsGapps(id)
                           THEN RunAfter(<<answer>>, <<gapps>>, Goto("postWipe"))
                           ELSE Emit(<<answer>>) /\ Goto("postWipe")
                      [] OTHER ->
                           /\ Emit(<<Ev("menu.Run", input, "Install Gapps?",
                                         "", FALSE)>>)
                           /\ exit(ExitLogFatal)
          ELSE Run(<<gapps>>, Goto("postWipe"))
    /\ UNCHANGED <<variant, nhDevices, cycle, status, productName, currDevice,
                   fsPresent, fsMissing>>

\* "Wiping your device without wiping /data/media..."
PostInstallWipe ==
    /\ pc = "postWipe"
    /\ Run(<<Sleep("10000"), Shell("twrp wipe cache", ""),
             Sleep("1000"), Shell("twrp wipe dalvik", "")>>,
           Goto("reboot1"))
    /\ UNCHANGED <<variant, nhDevices, cycle, status, productName, currDevice,
                   fsPresent, fsMissing>>

\* the reboot that ends the first phase, and the operator's acknowledgement
\* that adb is enabled again
RebootPhase1 ==
    /\ pc = "reboot1"
    /\ Run(<<Cmd("adb.Reboot", "", "", ErrorAdb), OpKey("ADB is reenabled")>>,
           Goto("cycle2Reboot"))
    /\ cycle' = IF pc' = "exited" THEN cycle ELSE 2
    /\ UNCHANGED <<variant, nhDevices, status, productName, currDevice,
                   fsPresent, fsMissing>>

\* second cycle: verify adb, reboot into the bootloader, wait
Cycle2Reboot ==
    /\ pc = "cycle2Reboot"
    /\ \E st \in Statuses, err \in BOOLEAN :
        LET v == verifyAdbStatusOrAbort(st, err)
            verify == Ev("adb.Status", "", "", "", ~err)
        IN /\ status' = st
           /\ IF v # {}
              THEN Emit(<<verify>>) /\ exit(CodeOf(v))
              ELSE RunAfter(<<verify>>,
                            <<Cmd("adb.Reboot", "bootloader", "", ErrorAdb),
                              Sleep("30000")>>,
                            Goto("cycle2Boot"))
    /\ UNCHANGED <<variant, nhDevices, cycle, productName, currDevice,
                   fsPresent, fsMissing>>

\* second cycle entered without booting the recovery image
Cycle2BootSkipped ==
    /\ pc = "cycle2Boot"
    /\ status' = NoStatus
    /\ Run(<<Sleep("20000")>>, Goto("installNhfs"))
    /\ UNCHANGED <<variant, nhDevices, cycle, productName, currDevice,
                   fsPresent, fsMissing>>

\* second cycle: "Boot into twrp"
Cycle2Boot ==
    /\ pc = "cycle2Boot"
    /\ status' = NoStatus
    /\ Run(<<Cmd("fastboot.Boot", "", Profile.Twrp_file, ErrorTWRP)>> \o
           (IF variant = Multi THEN <<OpKey("TWRP is fully loaded")>> ELSE <<>>) \o
           <<Sleep("20000")>>,
           Goto("installNhfs"))
    /\ UNCHANGED <<variant, nhDevices, cycle, productName, currDevice,
                   fsPresent, fsMissing>>

\* "Installing Nethunter filesystem, please keep your device connected..."
InstallNhfs ==
    /\ pc = "installNhfs"
    /\ Run(<<Shell("twrp install /sdcard/", Profile.Nhfs_file), Sleep("30000")>>,
           Goto("finalReboot"))
    /\ UNCHANGED <<variant, nhDevices, cycle, status, productName, currDevice,
                   fsPresent, fsMissing>>

\* the last reboot; the run ends with Success
FinalReboot ==
    /\ pc = "finalReboot"
    /\ Run(<<Cmd("adb.Reboot", "", "", ErrorAdb)>>, exit(Success))
    /\ UNCHANGED <<variant, nhDevices, cycle, status, productName, currDevice,
                   fsPresent, fsMissing>>

(* ---------------------------------------------------------------------- *)
(* Installation, factory-sideload program                                  *)
(* ---------------------------------------------------------------------- *)
\* "Flashing OxygenOS recovery in order to flash latest OxygenOS..."
FlashOxygenRecovery ==
    /\ pc = "flashOxygen"
    /\ Run(<<Cmd("fastboot.FlashRecovery", "", oxygenrecovery, ErrorTWRP)>>,
           Goto("bootOxygen"))
    /\ UNCHANGED <<variant, nhDevices, cycle, status, productName, currDevice,
                   fsPresent, fsMissing>>

\* "Booting into OxygenOS Recovery", then the operator enters sideload mode
BootOxygenRecovery ==
    /\ pc = "bootOxygen"
    /\ Run(<<Cmd("fastboot.Boot", "", oxygenrecovery, ErrorTWRP),
             OpKey("in sideload mode")>>,
           Goto("sideload"))
    /\ UNCHANGED <<variant, nhDevices, cycle, status, productName, currDevice,
                   fsPresent, fsMissing>>

\* the factory image sideloaded with no wait for the operator afterwards
SideloadFactoryUnacknowledged ==
    /\ pc = "sideload"
    /\ Run(<<Cmd("adb.Sideload", "", factory, ErrorTWRP)>>, Goto("modeDetect"))
    /\ cycle' = IF pc' = "exited" THEN cycle ELSE 2
    /\ UNCHANGED <<variant, nhDevices, status, productName, currDevice,
                   fsPresent, fsMissing>>

\* "Flashing factory zip file.", then the operator enables adb again; the
\* run then detects the mode a second time
SideloadFactory ==
    /\ pc = "sideload"
    /\ Run(<<Cmd("adb.Sideload", "", factory, ErrorTWRP), OpKey("ready")>>,
           Goto("modeDetect"))
    /\ cycle' = IF pc' = "exited" THEN cycle ELSE 2
    /\ UNCHANGED <<variant, nhDevices, status, productName, currDevice,
                   fsPresent, fsMissing>>

\* "Flash TWRP recovery (no longer need oxygen recovery)"
FlashTwrp ==
    /\ pc = "flashTwrp"
    /\ status' = NoStatus
    /\ Run(<<Cmd("fastboot.FlashRecovery", "", twrp, ErrorTWRP)>>,
           Goto("bootTwrp"))
    /\ UNCHANGED <<variant, nhDevices, cycle, productName, currDevice,
                   fsPresent, fsMissing>>

\* "Temporarily booting TWRP to flash Nethunter update zip"
BootTwrp ==
    /\ pc = "bootTwrp"
    /\ Run(<<Cmd("fastboot.Boot", "", twrp, ErrorTWRP), Sleep("30000")>>,
           Goto("pushNh"))
    /\ UNCHANGED <<variant, nhDevices, cycle, status, productName, currDevice,
                   fsPresent, fsMissing>>

\* "Transferring the Nethunter update zip to your device..."
PushNh ==
    /\ pc = "pushNh"
    /\ Run(<<Push(nhzip)>>, Goto("installNh"))
    /\ UNCHANGED <<variant, nhDevices, cycle, status, productName, currDevice,
                   fsPresent, fsMissing>>

\* "Installing Nethunter, please keep your device connected..."
InstallNh ==
    /\ pc = "installNh"
    /\ Run(<<Shell("twrp install /sdcard/", nhzip), Sleep("2000")>>,
           Goto("wipeSideload"))
    /\ UNCHANGED <<variant, nhDevices, cycle, status, productName, currDevice,
                   fsPresent, fsMissing>>

\* "Wiping your device without wiping /data/media..."
WipeSideload ==
    /\ pc = "wipeSideload"
    /\ Run(<<Shell("twrp wipe cache", ""), Sleep("1000"),
             Shell("twrp wipe dalvik", ""), Sleep("1000"),
             Shell("twrp wipe data", ""), Sleep("1000")>>,
           Goto("finalReboot"))
    /\ UNCHANGED <<variant, nhDevices, cycle, status, productName, currDevice,
                   fsPresent, fsMissing>>

(* ---------------------------------------------------------------------- *)
(* Specification                                                           *)
(* ---------------------------------------------------------------------- *)
Next ==
    \/ Start
    \/ ReadyPrompt
    \/ VerifyTools
    \/ ModeDetect
    \/ RebootToBootloader
    \/ VerifyFastboot
    \/ Identify
    \/ FindDevice
    \/ UnlockCheck
    \/ StageExtra
    \/ StageNhos
    \/ StageNhfs
    \/ StageGapps
    \/ StageTwrp
    \/ StageNhzip
    \/ StageOxygenRecovery
    \/ StageFactory
    \/ StageTwrpSideload
    \/ FlashRecovery
    \/ BootRecovery
    \/ PreInstallWipe
    \/ PushPayloads
    \/ InstallPayloads
    \/ InstallGapps
    \/ PostInstallWipe
    \/ RebootPhase1
    \/ Cycle2Reboot
    \/ Cycle2Boot
    \/ InstallNhfs
    \/ FinalReboot
    \/ FlashOxygenRecovery
    \/ BootOxygenRecovery
    \/ SideloadFactory
    \/ FlashTwrp
    \/ BootTwrp
    \/ PushNh
    \/ InstallNh
    \/ WipeSideload

Spec == Init /\ [][Next]_vars

\* main() runs on one goroutine and every call it makes returns: a run that
\* can take its next step takes it
LiveSpec == Spec /\ WF_vars(Next)

(* ---------------------------------------------------------------------- *)
(* Properties                                                              *)
(* ---------------------------------------------------------------------- *)
Idx == 1..Len(trace)
Exited == pc = "exited"
ErrorCodes == {ErrorPrereqs, ErrorUserInput, ErrorUsbPerms, ErrorAdb,
               ErrorFastboot, ErrorRemote, ErrorTWRP}
IsControl(e) == e.op \in ControlOps
IsMutating(e) == e.op \in MutatingOps
IsInstall(e) == e.op = "adb.Shell" /\ e.arg = "twrp install /sdcard/"
\* the bootloader reported the identifier r
Reported(r) ==
    \E i \in Idx : /\ trace[i].op = "fastboot.GetProduct"
                   /\ trace[i].ok
                   /\ trace[i].res = r
\* the events of the trace that satisfy Test, in order
Only(Test(_)) == SelectSeq(trace, Test)
\* s is an initial part of t
IsPrefix(s, t) == Len(s) <= Len(t) /\ \A i \in 1..Len(s) : s[i] = t[i]
\* the files named by a sequence of events
Files(evs) == [i \in 1..Len(evs) |-> evs[i].file]

\* every control-plane operation issued so far succeeded
AllSucceeded == \A i \in Idx : IsControl(trace[i]) => trace[i].ok

\* C1: once a control-plane operation (status verification, product query,
\* unlock, reboot, flash, boot, shell wipe/install, push, sideload) reports
\* failure, the run is aborted with an error code and no later control-plane
\* operation is issued.
C1_AbortOnFirstFailure ==
    \A i \in Idx :
        (IsControl(trace[i]) /\ trace[i].op # "fastboot.Unlocked" /\ ~trace[i].ok)
        => /\ Exited
           /\ exitCode \in ErrorCodes
           /\ \A j \in Idx : j > i => ~IsControl(trace[j])

\* the identifier the bootloader reported is not the one of a registered
\* profile (Multi), not the hard-coded one (Fixed, Sideload)
Unregistered(r) ==
    CASE variant = Multi ->
            \A k \in 1..Len(nhDevices) : nhDevices[k].Product_name # r
      [] variant = Fixed -> r # "MSM8974"
      [] variant = Sideload -> r # QCReference

\* C2: when the bootloader reports an identifier that matches no registered
\* profile (in the fixed-device programs: not the hard-coded one), the run
\* aborts and no device-mutating call is issued at any point of the run.
\* (Stated for the runs in which no control-plane operation failed.)
C2_UnknownDeviceAbortsUntouched ==
    \A r \in Products :
        (Reported(r) /\ Unregistered(r) /\ AllSucceeded)
        => /\ pc \in {"findDevice", "exited"}
           /\ Exited => exitCode \notin {Success, SuccessUserAbort,
                                         SuccessBootloaderUnlocked}
           /\ \A i \in Idx : ~IsMutating(trace[i])

\* C3: when an artifact is absent and its download fails, the run aborts
\* with the artifact-retrieval error code and never reaches the
\* flash-recovery stage.  (Stated for the runs in which no control-plane
\* operation failed.)
C3_FailedDownloadAborts ==
    (/\ \E i \in Idx : trace[i].op = "remote.DownloadURL" /\ ~trace[i].ok
     /\ AllSucceeded)
    => /\ Exited => exitCode = ErrorRemote
       /\ \A j \in Idx : trace[j].op # "fastboot.FlashRecovery"

\* C4: once unlock() has been issued the run is over: with the
\* bootloader-unlocked success code when it succeeded, with the bootloader
\* error code when it failed, and nothing but the reboot of the bootloader
\* follows it: no staging, download, flash, boot, push or install.
C4_UnlockEndsRun ==
    \A i \in Idx :
        trace[i].op = "fastboot.Unlock"
        => /\ Exited
           /\ exitCode = IF trace[i].ok THEN SuccessBootloaderUnlocked
                                         ELSE ErrorFastboot
           /\ \A j \in Idx :
                j > i => trace[i].ok /\ trace[j].op = "fastboot.Reboot"
                         /\ j = Len(trace)

C4_Witness ==
    /\ Exited
    /\ exitCode = SuccessBootloaderUnlocked
    /\ \E i \in Idx : trace[i].op = "fastboot.Unlock" /\ trace[i].ok

\* C5: when the bootloader reports the identifier shared by several
\* devices, the profile lookup is issued only after the selection menu has
\* returned an entry the operator selected, and the lookup (hence any
\* profile committed) is for that entry and no other.
C5_SelectionBeforeCommit ==
    (variant = Multi /\ Reported(QCReference))
    => /\ \A i \in Idx :
            trace[i].op = "findDeviceConfig"
            => /\ i > 1
               /\ trace[i - 1].op = "menu.Run"
               /\ trace[i - 1].ok
               /\ trace[i - 1].arg \in MenuInputs
               /\ \E k \in 1..Len(MenuOptions) :
                    trace[i - 1].res = MenuOptions[k]
               /\ trace[i].arg = trace[i - 1].res
       /\ currDevice # NoDevice
          => \E i \in Idx : /\ trace[i].op = "menu.Run"
                            /\ trace[i].ok
                            /\ currDevice.Product_name = trace[i].res

C5_Witness ==
    /\ variant = Multi
    /\ Reported(QCReference)
    /\ currDevice = L2
    /\ \E i \in Idx : trace[i].op = "menu.Run" /\ trace[i].arg = "1"
    /\ pc = "unlockCheck"

\* the entry of the registry for the device named cn under the shared
\* identifier
SharedProfile(cn) ==
    CHOOSE d \in {nhDevices[k] : k \in 1..Len(nhDevices)} :
        d.Common_name = cn /\ d.Product_name = QCReference

\* C6: with three profiles registered under "QC_Reference_Phone", three
\* named choices are offered, and selecting the k-th commits the registered
\* profile of the k-th choice; the run does not end with
\* device-config-not-found.
C6_SelectionCommitsChosenProfile ==
    (/\ variant = Multi
     /\ nhDevices = <<Q5, Q2, Q1>>
     /\ Reported(QCReference)
     /\ AllSucceeded)
    => /\ Len(MenuOptions) = 3
       /\ \A i \in Idx :
            (trace[i].op = "findDeviceConfig" /\ trace[i - 1].op = "menu.Run")
            => /\ currDevice = SharedProfile(trace[i - 1].res)
               /\ ~(Exited /\ exitCode = ExitNoConfig)

\* the profile declares no extra payload at all
ExtraUnset ==
    /\ variant = Multi
    /\ currDevice # NoDevice
    /\ currDevice.Extra_file = ""
    /\ currDevice.Extra_url = ""

IsStat(e) == e.op = "os.Stat"
IsDownload(e) == e.op = "remote.DownloadURL"
IsPush(e) == e.op = "adb.PushFg"

\* C7: for a profile whose extra file and URL are both unset, no extra
\* payload stage runs: staging starts with the OS payload and looks at the
\* OS, filesystem, companion and recovery files only, the transfers are the
\* OS, filesystem and companion payloads, and the installs are the OS
\* payload, the companion bundle when asked for, and the filesystem payload.
C7_NoExtraStages ==
    ExtraUnset
    => /\ IsPrefix(Files(Only(IsStat)),
                   <<currDevice.Nhos_file, currDevice.Nhfs_file,
                     currDevice.Gapps_file, currDevice.Twrp_file>>)
       /\ \A i \in Idx : IsDownload(trace[i]) => trace[i].arg # ""
       /\ IsPrefix(Files(Only(IsPush)),
                   <<currDevice.Nhos_file, currDevice.Nhfs_file,
                     currDevice.Gapps_file>>)
       /\ \/ IsPrefix(Files(Only(IsInstall)),
                      <<currDevice.Nhos_file, currDevice.Gapps_file,
                        currDevice.Nhfs_file>>)
          \/ IsPrefix(Files(Only(IsInstall)),
                      <<currDevice.Nhos_file, currDevice.Nhfs_file>>)

C7_Witness ==
    /\ ExtraUnset
    /\ Exited
    /\ exitCode = Success
    /\ Len(Only(IsStat)) = 4
    /\ Len(Only(IsPush)) = 3
    /\ Len(Only(IsInstall)) = 3

\* the reboot into the bootloader that mode detection requests
IsRebootToBootloader(e) == e.op = "adb.Reboot" /\ e.arg = "bootloader"
IsSettleWait(e) == e.op = "time.Sleep" /\ e.arg = SettleWait

\* the last call issued is the poll of the bootloader that follows the
\* reboot request and the settle wait of the initial mode detection
LastIsPoll ==
    /\ cycle = 1
    /\ Len(trace) >= 3
    /\ trace[Len(trace)].op = "fastboot.Status"
    /\ IsSettleWait(trace[Len(trace) - 1])
    /\ IsRebootToBootloader(trace[Len(trace) - 2])

C9_DeclineTouchesNothing ==
    \A i \in Idx :
        (trace[i].op = "reader.ReadLine" /\ trace[i].ok /\ trace[i].res # "yes")
        => /\ Exited
           /\ exitCode = SuccessUserAbort
           /\ \A j \in Idx : ~IsControl(trace[j])

C9_Witness ==
    /\ Exited
    /\ exitCode = SuccessUserAbort
    /\ Len(trace) = 1
    /\ trace[1].op = "reader.ReadLine"
    /\ trace[1].res = "Yes"

\* the calls from the first flash of the recovery image on
FromFlash ==
    LET flashes == {i \in Idx : trace[i].op = "fastboot.FlashRecovery"}
    IN IF flashes = {} THEN <<>>
       ELSE SubSeq(trace, CHOOSE i \in flashes : \A j \in flashes : i <= j,
                   Len(trace))
ControlFromFlash == SelectSeq(FromFlash, IsControl)

\* what a call asks for: operation, argument and file
Call(op, arg, file) == [op |-> op, arg |-> arg, file |-> file]
CallOf(e) == Call(e.op, e.arg, e.file)

\* the order of the install phase for the profile d
InstallOrder(d) ==
    <<Call("fastboot.FlashRecovery", "", d.Twrp_file),
      Call("fastboot.Boot", "", d.Twrp_file),
      Call("adb.Shell", "twrp wipe dalvik", ""),
      Call("adb.Shell", "twrp wipe data", ""),
      Call("adb.Shell", "twrp wipe system", "")>> \o
    (IF d.Extra_file # "" THEN <<Call("adb.PushFg", "/sdcard", d.Extra_file)>>
                          ELSE <<>>) \o
    <<Call("adb.PushFg", "/sdcard", d.Nhos_file),
      Call("adb.PushFg", "/sdcard", d.Nhfs_file),
      Call("adb.PushFg", "/sdcard", d.Gapps_file)>> \o
    (IF d.Extra_file # ""
     THEN <<Call("adb.Shell", "twrp install /sdcard/", d.Extra_file)>>
     ELSE <<>>) \o
    <<Call("adb.Shell", "twrp install /sdcard/", d.Nhos_file)>>

\* C10: in the stage-then-install programs the control-plane calls from the
\* flash of the recovery on are, in this order and each only after the one
\* before it succeeded: flash recovery, boot recovery, the three pre-install
\* wipes, push extra (when the profile has one), push OS, push filesystem,
\* push companion, install extra (when the profile has one), install OS; a
\* successful boot is followed by an operator confirmation or a settle
\* wait; install-extra never follows install-OS.
C10_InstallOrder ==
    variant \in {Fixed, Multi}
    => LET ctl == ControlFromFlash
           order == InstallOrder(Profile)
       IN /\ \A k \in 1..Len(ctl) :
               k <= Len(order)
               => /\ CallOf(ctl[k]) = order[k]
                  /\ k > 1 => ctl[k - 1].ok
          /\ \A i \in Idx :
               (trace[i].op = "fastboot.Boot" /\ trace[i].ok)
               => /\ i < Len(trace)
                  /\ trace[i + 1].op \in {"waitForOpKey", "time.Sleep"}
          /\ LET installed == Files(Only(IsInstall))
             IN \A i, j \in 1..Len(installed) :
                  (i < j /\ installed[i] = Profile.Nhos_file)
                  => ~(/\ Profile.Extra_file # ""
                       /\ installed[j] = Profile.Extra_file)

C10_Witness ==
    /\ variant = Multi
    /\ currDevice.Extra_file # ""
    /\ Len(ControlFromFlash) >= Len(InstallOrder(currDevice))
    /\ Len(InstallOrder(currDevice)) = 11
    /\ ControlFromFlash[11].ok

\* the operator's acknowledgement that adb is enabled again
IsAdbAck(e) == e.op \in {"waitForOpKey", "ReadBytes"} /\ e.arg = "ADB is reenabled"
\* a control-plane call or that acknowledgement
IsCycleStep(e) == IsControl(e) \/ IsAdbAck(e)
\* the install of the filesystem payload
IsInstallNhfs(e) == IsInstall(e) /\ e.file = Profile.Nhfs_file
\* a call with its outcome
Outcome(op, arg, file, ok) == [op |-> op, arg |-> arg, file |-> file, ok |-> ok]
OutcomeOf(e) == Outcome(e.op, e.arg, e.file, e.ok)

\* what leads to the install of the filesystem payload
SecondCycle(d, ack) ==
    <<Outcome("adb.Reboot", "", "", TRUE),
      Outcome(ack, "ADB is reenabled", "", TRUE),
      Outcome("adb.Status", "", "", TRUE),
      Outcome("adb.Reboot", "bootloader", "", TRUE),
      Outcome("fastboot.Boot", "", d.Twrp_file, TRUE)>>

\* C11: in the stage-then-install programs the filesystem payload is
\* installed only in the second cycle: the calls that lead to its install
\* end with the successful phase-1 reboot, the operator's acknowledgement,
\* the user-mode status verification, the successful reboot into the
\* bootloader and the successful boot of the recovery image, in this order;
\* only waits and the final reboot follow the install, and a run that went
\* past the ready prompt reports full success only right after that final
\* reboot succeeded, the install having succeeded before it.
C11_FilesystemInSecondCycle ==
    variant \in {Fixed, Multi}
    => /\ \A i \in Idx :
            IsInstallNhfs(trace[i])
            => LET led == SelectSeq(SubSeq(trace, 1, i - 1), IsCycleStep)
                   n == Len(led)
                   ack == IF variant = Multi THEN "waitForOpKey" ELSE "ReadBytes"
               IN /\ cycle = 2
                  /\ n >= 5
                  /\ [k \in 1..5 |-> OutcomeOf(led[n - 5 + k])]
                        = SecondCycle(Profile, ack)
                  /\ \A j \in Idx :
                        j > i => \/ trace[j].op = "time.Sleep"
                                 \/ /\ trace[j].op = "adb.Reboot"
                                    /\ trace[j].arg = ""
                                    /\ trace[i].ok
                                    /\ j = Len(trace)
       /\ (Exited /\ exitCode = Success /\ trace # <<>>)
          => /\ trace[Len(trace)].op = "adb.Reboot"
             /\ trace[Len(trace)].arg = ""
             /\ trace[Len(trace)].ok
             /\ \E i \in Idx : IsInstallNhfs(trace[i]) /\ trace[i].ok

C11_Witness ==
    /\ variant = Fixed
    /\ Exited
    /\ exitCode = Success
    /\ \E i \in Idx : IsInstallNhfs(trace[i]) /\ trace[i].ok

\* the last call issued is a user-mode status verification (the status
\* queries of the tool check are the second and third call of a run)
LastIsAdbVerify ==
    /\ Len(trace) > 3
    /\ trace[Len(trace)].op = "adb.Status"

\* C12 as stated: every reboot into the bootloader is requested by a mode
\* detection that queried the bootloader status first and then verified the
\* user-mode status.
C12_BootloaderQueriedFirst ==
    \A i \in Idx :
        IsRebootToBootloader(trace[i])
        => /\ i >= 3
           /\ trace[i - 1].op = "adb.Status"
           /\ trace[i - 1].ok
           /\ trace[i - 2].op = "fastboot.Status"

\* C12, amended: the initial mode detection of every program, and the second
\* one of the factory-sideload program, query the bootloader status first
\* and go to the user-mode branch only when it reports no device found; the
\* second cycle of the stage-then-install programs queries no bootloader
\* status and goes to the user-mode verification right after the operator's
\* acknowledgement.  Everywhere the reboot into the bootloader is requested
\* only right after a user-mode status verification that succeeded and
\* reported the device ready, and a verification that fails or reports no
\* device or unauthorized ends the run with the adb error code, no reboot
\* requested.
C12_RebootOnlyAfterUserModeVerified ==
    /\ \A i \in Idx :
         IsRebootToBootloader(trace[i])
         => /\ i >= 3
            /\ trace[i - 1].op = "adb.Status"
            /\ trace[i - 1].ok
            /\ IF variant \in {Fixed, Multi}
                  /\ \E j \in 1..(i - 1) : trace[j].op = "adb.Reboot"
               THEN IsAdbAck(trace[i - 2])
               ELSE trace[i - 2].op = "fastboot.Status"
    /\ pc = "rebootBootloader"
       => status = NoDeviceFound /\ trace[Len(trace)].op = "fastboot.Status"
    /\ (Len(trace) > 0 /\ IsRebootToBootloader(trace[Len(trace)]))
       => status = DeviceFound
    /\ LastIsAdbVerify
       => /\ Exited
          /\ (~trace[Len(trace)].ok
                 \/ status \in {NoDeviceFound, DeviceUnauthorized})
             => exitCode = ErrorAdb
    /\ \A i \in Idx :
         (i > 3 /\ trace[i].op = "adb.Status" /\ ~trace[i].ok)
         => i = Len(trace)

C12_Witness ==
    /\ variant = Sideload
    /\ cycle = 2
    /\ LastIsAdbVerify
    /\ trace[Len(trace)].ok
    /\ status = DeviceUnauthorized
    /\ Exited
    /\ exitCode = ErrorAdb

\* the success codes of the outcome categories
SuccessCodes == {Success, SuccessUserAbort, SuccessBootloaderUnlocked}

\* C13: the ten exit codes of the outcome categories are pairwise distinct,
\* no success code is an error code, and every error code is above every
\* success code, so that the code a run ends with names one category only:
\* an error code a run exits with is no success code and is above all of them.
C13_ExitCodesPartition ==
    /\ Cardinality(SuccessCodes) = 3
    /\ Cardinality(ErrorCodes) = 7
    /\ SuccessCodes \cap ErrorCodes = {}
    /\ \A e \in ErrorCodes : \A c \in SuccessCodes : e > c
    /\ (Exited /\ exitCode \in ErrorCodes) =>
          /\ exitCode \notin SuccessCodes
          /\ \A c \in SuccessCodes : exitCode > c

C13_Witness ==
    /\ Exited
    /\ exitCode = ErrorPrereqs
    /\ exitCode > SuccessBootloaderUnlocked
    /\ trace # <<>>

\* the install of the OS payload, of the companion bundle
IsInstallNhos(e) == IsInstall(e) /\ e.file = Profile.Nhos_file
IsInstallGapps(e) == IsInstall(e) /\ e.file = Profile.Gapps_file
\* the "Install Gapps?" prompt, answered or not
IsGappsPrompt(e) == e.op = "menu.Run" /\ e.file = "Install Gapps?"
\* a wipe of the cache, the first call of the post-install wipe
IsWipeCache(e) == e.op = "adb.Shell" /\ e.arg = "twrp wipe cache"

\* C14: in the multi-device program the companion bundle is installed
\* exactly when the operator's answer to the install prompt is yes, and the
\* prompt comes right after the successful install of the OS payload; in the
\* fixed-device program the install of the companion bundle is the call
\* issued right after the successful install of the OS payload; in both a
\* failed install of the companion bundle ends the run with the
\* recovery/install code, before any post-install wipe.
C14_CompanionInstall ==
    /\ variant = Multi
       => /\ \A i \in Idx :
               IsGappsPrompt(trace[i])
               => /\ i > 1
                  /\ IsInstallNhos(trace[i - 1])
                  /\ trace[i - 1].ok
                  /\ (trace[i].ok /\ trace[i].res = "yes")
                     <=> (Len(trace) > i /\ IsInstallGapps(trace[i + 1]))
                  /\ \A j \in Idx : (j > i + 1) => ~IsInstallGapps(trace[j])
          /\ \A i \in Idx :
               IsInstallGapps(trace[i]) => i > 1 /\ IsGappsPrompt(trace[i - 1])
    /\ variant = Fixed
       => /\ \A i \in Idx :
               (IsInstallNhos(trace[i]) /\ trace[i].ok /\ i < Len(trace))
               => IsInstallGapps(trace[i + 1])
          /\ \A i \in Idx :
               IsInstallGapps(trace[i])
               => i > 1 /\ IsInstallNhos(trace[i - 1]) /\ trace[i - 1].ok
          /\ pc \in {"postWipe", "reboot1", "cycle2Reboot", "cycle2Boot",
                     "installNhfs", "finalReboot"}
             => \E i \in Idx : IsInstallGapps(trace[i]) /\ trace[i].ok
    /\ variant \in {Fixed, Multi}
       => \A i \in Idx :
            (IsInstallGapps(trace[i]) /\ ~trace[i].ok)
            => /\ Exited
               /\ exitCode = ErrorTWRP
               /\ i = Len(trace)
               /\ \A j \in Idx : ~IsWipeCache(trace[j])

C14_Witness ==
    /\ variant = Multi
    /\ pc = "postWipe"
    /\ IsGappsPrompt(trace[Len(trace)])
    /\ trace[Len(trace)].res = "no"
    /\ \A j \in Idx : ~IsInstallGapps(trace[j])

\* C15: a failed query of the bootloader lock state does not end the run,
\* and the lock state is then unknown: the run does not act on the value the
\* failed query returned, so no unlock is issued on the strength of it.
C15_FailedLockQueryIsUnknown ==
    \A i \in Idx :
        (trace[i].op = "fastboot.Unlocked" /\ ~trace[i].ok)
        => /\ ~(Exited /\ i = Len(trace))
           /\ \A j \in Idx : j > i => trace[j].op # "fastboot.Unlock"

\* the stages in the order the programs go through them within a cycle
StageOrder ==
    <<"start", "ready", "verifyTools", "modeDetect", "rebootBootloader",
      "verifyFastboot", "identify", "findDevice", "unlockCheck",
      "stageExtra", "stageNhos", "stageNhfs", "stageGapps", "stageTwrp",
      "stageNhzip", "stageOxygenRecovery", "stageFactory", "stageTwrpSideload",
      "flashRecovery", "bootRecovery", "wipe", "push", "install",
      "installGapps", "postWipe", "reboot1", "cycle2Reboot", "cycle2Boot",
      "installNhfs", "flashOxygen", "bootOxygen", "sideload", "flashTwrp",
      "bootTwrp", "pushNh", "installNh", "wipeSideload", "finalReboot",
      "exited">>
\* the index of the stage the run is at
StageIndex ==
    (cycle - 1) * Len(StageOrder)
    + (CHOOSE k \in 1..Len(StageOrder) : StageOrder[k] = pc)

\* C16: every step of a run moves the stage index forward; the
\* device-mutating calls a stage issues are pairwise different (none is
\* issued twice by its stage), so only a stage that is never re-entered
\* issues them; and no call a step issues repeats a device-mutating call
\* that failed before it.
C16_NoStageRepeated ==
    [][/\ StageIndex' > StageIndex
       /\ LET new == SubSeq(trace', Len(trace) + 1, Len(trace'))
          IN \A a, b \in 1..Len(new) :
                (a < b /\ IsMutating(new[a]))
                => CallOf(new[a]) # CallOf(new[b])
       /\ \A j \in (Len(trace) + 1)..Len(trace') :
            \A i \in 1..(j - 1) :
                (IsMutating(trace'[i]) /\ ~trace'[i].ok)
                => CallOf(trace'[j]) # CallOf(trace'[i])]_vars

C16_Witness ==
    /\ variant = Multi
    /\ Exited
    /\ exitCode = Success
    /\ Len(Only(IsRebootToBootloader)) = 2
    /\ StageIndex = 2 * Len(StageOrder)

\* the position in the trace of the last control-plane call, 0 if none
LastControlAt ==
    LET at == {i \in Idx : IsControl(trace[i])}
    IN IF at = {} THEN 0 ELSE CHOOSE i \in at : \A j \in at : j <= i

\* the error code declared for the stage a run stopped in, where a failed
\* poll of the bootloader after the settle wait is declared pollCode
DeclaredCode(pollCode) ==
    LET n == LastControlAt
        e == trace[n]
    IN IF trace = <<>> THEN ErrorPrereqs
       ELSE IF n = 0 THEN ErrorUserInput
       ELSE IF n <= 3 THEN ErrorPrereqs
       ELSE IF e.op = "fastboot.Status" /\ IsSettleWait(trace[n - 1])
            THEN pollCode
       ELSE IF e.op \in StatusOps /\ e.ok /\ status = NoUsbPerms
            THEN ErrorUsbPerms
       ELSE IF e.op \in {"adb.Status", "adb.PushFg", "adb.Reboot"}
            THEN ErrorAdb
       ELSE IF e.op \in {"fastboot.Status", "fastboot.GetProduct",
                         "fastboot.Unlock"}
            THEN ErrorFastboot
       ELSE IF e.op \in {"fastboot.FlashRecovery", "fastboot.Boot",
                         "adb.Shell", "adb.Sideload"}
            THEN ErrorTWRP
       ELSE ErrorBase

\* a run that stopped right after a control-plane call failed (the reboot
\* of the bootloader after an unlock is the one call whose failure the run
\* does not look at before it ends)
StoppedOnFailure ==
    /\ Exited
    /\ trace # <<>>
    /\ IsControl(trace[Len(trace)])
    /\ ~trace[Len(trace)].ok
    /\ trace[Len(trace)].op # "fastboot.Reboot"

\* C17 as stated: a run that ends with an error code ends with the code of
\* the failing call's kind, a failed bootloader status check giving the
\* bootloader (fastboot) code wherever it is made.
C17_CodeByKindOfCall ==
    /\ (Exited /\ exitCode \in ErrorCodes) => exitCode = DeclaredCode(ErrorFastboot)
    /\ StoppedOnFailure => exitCode \in ErrorCodes

\* C17, amended: a run that ends with an error code ends with the code
\* declared for the stage it stopped in, the same in all three programs:
\* prerequisites for the PATH set-up and the tool verification, user input
\* for the ready prompt, USB permissions for a no-permission status of a
\* status verification, adb for a user-mode status verification, a push, a
\* reboot request and for the poll of the bootloader that follows the
\* reboot into it, fastboot for the bootloader status verification, the
\* product query and the unlock, recovery/install for flash, boot, wipe,
\* install and sideload; and a run that stops on a failed call ends with an
\* error code.
C17_CodeByStage ==
    /\ (Exited /\ exitCode \in ErrorCodes) => exitCode = DeclaredCode(ErrorAdb)
    /\ StoppedOnFailure => exitCode \in ErrorCodes

C17_Witness ==
    /\ Exited
    /\ exitCode = ErrorAdb
    /\ Len(trace) > 3
    /\ trace[Len(trace)].op = "adb.PushFg"
    /\ ~trace[Len(trace)].ok

\* the exit statuses of the outcome taxonomy
Taxonomy == SuccessCodes \cup ErrorCodes

\* C18: every run that ends, ends with a code of the outcome taxonomy: 0,
\* one of the two other success codes, or one of the seven error codes; so
\* do the runs that find no device configuration or whose operator menu
\* fails.
C18_ExitCodeInTaxonomy ==
    Exited => exitCode \in Taxonomy

\* the artifacts a program stages: the local file and the URL it is
\* fetched from
Artifacts ==
    IF variant = Sideload
    THEN {<<nhzip, nhzipurl>>, <<oxygenrecovery, recoveryimgurl>>,
          <<factory, oxygenurl>>, <<twrp, twrpurl>>}
    ELSE {<<Profile.Extra_file, Profile.Extra_url>>,
          <<Profile.Nhos_file, Profile.Nhos_url>>,
          <<Profile.Nhfs_file, Profile.Nhfs_url>>,
          <<Profile.Gapps_file, Profile.Gapps_url>>,
          <<Profile.Twrp_file, Profile.Twrp_url>>}

\* C19: an artifact is fetched exactly when its own local file is absent:
\* every download comes right after a look at the local file of the
\* artifact downloaded, which found it missing, and every artifact has its
\* own file looked at; a file found missing is followed by the download of
\* that file's artifact.
C19_FetchIffOwnFileMissing ==
    /\ \A i \in Idx :
         IsDownload(trace[i])
         => /\ i > 1
            /\ IsStat(trace[i - 1])
            /\ trace[i - 1].res = "missing"
            /\ <<trace[i - 1].file, trace[i].arg>> \in Artifacts
    /\ \A i \in Idx :
         (IsStat(trace[i]) /\ trace[i].res = "missing")
         => /\ Len(trace) > i
            /\ IsDownload(trace[i + 1])
            /\ <<trace[i].file, trace[i + 1].arg>> \in Artifacts

\* a bootloader operation: flash of the recovery or boot of an image
IsBootloaderOp(e) == e.op \in {"fastboot.FlashRecovery", "fastboot.Boot"}

\* C20: after every successful request to reboot into the bootloader, in
\* the first and in the second cycle, the settle wait is followed by a poll
\* of the bootloader status before any bootloader operation is issued: a
\* flash or boot that comes after the request is preceded by that poll.
C20_PollBeforeBootloaderOp ==
    \A i \in Idx :
        (IsRebootToBootloader(trace[i]) /\ trace[i].ok)
        => /\ Len(trace) >= i + 1
           /\ trace[i + 1].op = "time.Sleep"
           /\ \A j \in Idx :
                (j > i /\ IsBootloaderOp(trace[j]))
                => /\ trace[i + 2].op = "fastboot.Status"
                   /\ trace[i + 2].ok

\* C21: the run passes the bootloader status verification, and so goes on to
\* the product query, the unlock check and the flash operations, only when
\* the status the verification has just queried is "device found"; a failed
\* query and each of the other status values end the run there.
C21_VerifiedOnlyWhenReady ==
    pc = "identify"
    => /\ trace[Len(trace)].op = "fastboot.Status"
       /\ trace[Len(trace)].ok
       /\ status = DeviceFound

\* a wipe command, and the two wipes of the post-install stage
IsWipe(e) ==
    /\ e.op = "adb.Shell"
    /\ e.arg \in {"twrp wipe cache", "twrp wipe dalvik",
                  "twrp wipe data", "twrp wipe system"}
IsCacheOrDalvikWipe(e) ==
    e.op = "adb.Shell" /\ e.arg \in {"twrp wipe cache", "twrp wipe dalvik"}

\* C22: once an install command has been issued, the only wipes issued in
\* the rest of the run are the wipes of cache and dalvik: no wipe of data or
\* system follows an install, in any of the three programs.
C22_OnlyCacheAndDalvikAfterInstall ==
    \A j \in Idx :
        (IsWipe(trace[j]) /\ \E i \in 1..(j - 1) : IsInstall(trace[i]))
        => IsCacheOrDalvikWipe(trace[j])

\* the committed profile declares no companion bundle
NoCompanion ==
    /\ variant = Multi
    /\ currDevice.Common_name # ""
    /\ currDevice.Gapps_file = ""
    /\ currDevice.Gapps_url = ""

\* a look at the local file, a download or a push of the companion bundle
IsCompanionTransfer(e) ==
    \/ e.op \in {"os.Stat", "adb.PushFg"} /\ e.file = Profile.Gapps_file
    \/ e.op = "remote.DownloadURL" /\ e.arg = Profile.Gapps_url

\* C23: for a profile that declares no companion bundle, no staging check,
\* download or push of a companion bundle is issued.
C23_NoCompanionNoTransfer ==
    NoCompanion => \A i \in Idx : ~IsCompanionTransfer(trace[i])

\* the operator's acknowledgement msg in the factory-sideload program
IsReadBytes(e, msg) == e.op = "ReadBytes" /\ e.arg = msg
\* the flash of the TWRP image in the factory-sideload program
IsTwrpFlash(e) == e.op = "fastboot.FlashRecovery" /\ e.file = twrp
\* an operation on the TWRP image
IsTwrpOp(e) == IsBootloaderOp(e) /\ e.file = twrp

\* C24: in the factory-sideload program the sideload of the factory package
\* comes right after the successful flash and the successful boot of the OEM
\* recovery and the operator's acknowledgement of sideload mode, in that
\* order; the flash of TWRP is issued only after the sideload succeeded, the
\* operator acknowledged and a mode detection was completed; a failed
\* sideload ends the run with the recovery/install code and no operation on
\* the TWRP image is ever issued.
C24_SideloadBeforeTwrp ==
    variant = Sideload
    => /\ \A i \in Idx :
            trace[i].op = "adb.Sideload"
            => /\ i > 3
               /\ trace[i].file = factory
               /\ OutcomeOf(trace[i - 3]) =
                    Outcome("fastboot.FlashRecovery", "", oxygenrecovery, TRUE)
               /\ OutcomeOf(trace[i - 2]) =
                    Outcome("fastboot.Boot", "", oxygenrecovery, TRUE)
               /\ IsReadBytes(trace[i - 1], "in sideload mode")
               /\ ~trace[i].ok
                  => /\ i = Len(trace)
                     /\ Exited
                     /\ exitCode = ErrorTWRP
       /\ \A j \in Idx :
            IsTwrpOp(trace[j])
            => \E i \in 1..(j - 1) :
                 /\ trace[i].op = "adb.Sideload"
                 /\ trace[i].ok
                 /\ IsReadBytes(trace[i + 1], "ready")
                 /\ trace[i + 2].op = "fastboot.Status"
                 /\ i + 2 < j
       /\ \A j \in Idx :
            IsTwrpFlash(trace[j]) => trace[j - 1].op = "fastboot.Status"

C24_Witness ==
    /\ variant = Sideload
    /\ \E j \in Idx : IsTwrpFlash(trace[j]) /\ trace[j].ok
    /\ Len(Only(IsRebootToBootloader)) = 1
    /\ cycle = 2

\* the run ended with a success code; the run was aborted
Done == Exited /\ exitCode \in SuccessCodes
Aborted == Exited /\ exitCode \notin SuccessCodes

\* C25: every run terminates: when every call returns and every prompt is
\* answered, the run eventually ends, either done with a success code or
\* aborted; no stage is returned to and no status query is repeated without
\* end.
C25_EveryRunTerminates == <>(Done \/ Aborted)

C25_Witness ==
    /\ Done
    /\ exitCode = Success
    /\ cycle = 2
    /\ Len(Only(IsRebootToBootloader)) = 2

\* the control-plane calls of the run, in order
ControlCalls ==
    LET ctl == Only(IsControl) IN [i \in 1..Len(ctl) |-> CallOf(ctl[i])]

\* the control-plane calls of a complete stage-then-install run for the
\* profile d, written without reference to the program that issues them:
\* viaAdb tells whether mode detection found the device in user-mode, locked
\* whether the bootloader was found locked
StageThenInstall(d, viaAdb, locked) ==
    <<Call("adb.Status", "", ""), Call("fastboot.Status", "", ""),
      Call("fastboot.Status", "", "")>> \o
    (IF viaAdb THEN <<Call("adb.Status", "", ""),
                      Call("adb.Reboot", "bootloader", ""),
                      Call("fastboot.Status", "", "")>>
               ELSE <<>>) \o
    <<Call("fastboot.Status", "", ""), Call("fastboot.GetProduct", "", ""),
      Call("fastboot.Unlocked", "", "")>> \o
    (IF locked
     THEN <<Call("fastboot.Unlock", "", ""), Call("fastboot.Reboot", "", "")>>
     ELSE InstallOrder(d) \o
          <<Call("adb.Shell", "twrp install /sdcard/", d.Gapps_file),
            Call("adb.Shell", "twrp wipe cache", ""),
            Call("adb.Shell", "twrp wipe dalvik", ""),
            Call("adb.Reboot", "", ""),
            Call("adb.Status", "", ""),
            Call("adb.Reboot", "bootloader", ""),
            Call("fastboot.Boot", "", d.Twrp_file),
            Call("adb.Shell", "twrp install /sdcard/", d.Nhfs_file),
            Call("adb.Reboot", "", "")>>)

\* the exit code of a run that issued control-plane calls, from its last
\* call and the status held, written without reference to the program
ExitAfterCalls ==
    LET e == trace[LastControlAt]
    IN IF e.op = "adb.Reboot" /\ e.arg = "" /\ e.ok THEN Success
       ELSE IF e.op = "fastboot.Reboot" THEN SuccessBootloaderUnlocked
       ELSE DeclaredCode(ErrorAdb)

\* a run of the fixed-device program, or a run of the multi-device program
\* on a registry that holds the fixed device's profile, in which the
\* bootloader's identifier needed no selection and was found in the
\* registry, and the operator did not answer the "Install Gapps?" prompt
\* with anything but yes
Comparable ==
    \/ variant = Fixed
    \/ /\ variant = Multi
       /\ \E k \in 1..Len(nhDevices) : nhDevices[k] = BaconDevice
       /\ currDevice \in {NoDevice, BaconDevice}
       /\ \A i \in Idx :
            /\ trace[i].op = "menu.Run"
               => IsGappsPrompt(trace[i]) /\ trace[i].res = "yes"
            /\ trace[i].op = "findDeviceConfig" => trace[i].ok

\* C26: the fixed-device program and the multi-device program run with the
\* same profile, no extra payload and a yes to the companion prompt issue
\* the same control-plane calls in the same order and end with the same
\* exit code: the calls of every such run of either program are an initial
\* part of the one reference sequence for that profile, the unlock is
\* issued exactly on a bootloader reported locked, and the exit code is the
\* one the last call and the status held determine.
C26_SameCallsSameExit ==
    Comparable
    => /\ \E viaAdb \in BOOLEAN, locked \in BOOLEAN :
            IsPrefix(ControlCalls, StageThenInstall(BaconDevice, viaAdb, locked))
       /\ \A i \in Idx :
            (trace[i].op = "fastboot.Unlocked" /\ i < Len(trace))
            => (trace[i + 1].op = "fastboot.Unlock" <=> trace[i].res = "false")
       /\ (Exited /\ LastControlAt > 0) => exitCode = ExitAfterCalls

C26_Witness ==
    /\ variant = Multi
    /\ currDevice = BaconDevice
    /\ Exited
    /\ exitCode = Success
    /\ \E i \in Idx : IsGappsPrompt(trace[i]) /\ trace[i].arg = "y"
    /\ Len(ControlCalls) = Len(StageThenInstall(BaconDevice, TRUE, FALSE))

\* a device operation that is handed a local file
TakesFile(e) ==
    e.op \in {"fastboot.FlashRecovery", "fastboot.Boot", "adb.PushFg",
              "adb.Sideload"}

\* the event is the staging check of file: a look at that local file, or
\* the download that writes it
StagesFile(e, file) ==
    \/ IsStat(e) /\ e.file = file
    \/ IsDownload(e) /\ e.arg # "" /\ UrlFile(e.arg) = file

\* C27: every file handed to a device operation (flash recovery, boot, push,
\* sideload) went through its own staging check earlier in the run: its
\* local presence was looked at or its download was invoked.
C27_StagedBeforeUse ==
    \A j \in Idx :
        TakesFile(trace[j])
        => \E i \in 1..(j - 1) : StagesFile(trace[i], trace[j].file)

\* a wipe that only the pre-install stage issues: data or system (the wipe
\* of dalvik is issued by the post-install stage as well)
IsDataOrSystemWipe(e) ==
    e.op = "adb.Shell" /\ e.arg \in {"twrp wipe data", "twrp wipe system"}

\* C28: every install command for a payload file is issued only after the
\* push of that same file succeeded earlier in the run, the filesystem
\* payload installed in the second cycle included, and no wipe of the
\* pre-install stage (data, system) is issued between that push and that
\* install.
C28_PushedBeforeInstalled ==
    \A j \in Idx :
        IsInstall(trace[j])
        => \E i \in 1..(j - 1) :
             /\ IsPush(trace[i])
             /\ trace[i].file = trace[j].file
             /\ trace[i].ok
             /\ \A k \in (i + 1)..(j - 1) : ~IsDataOrSystemWipe(trace[k])

C28_Witness ==
    /\ variant \in {Fixed, Multi}
    /\ cycle = 2
    /\ \E j \in Idx : IsInstallNhfs(trace[j]) /\ trace[j].ok
    /\ \E k \in Idx : IsDataOrSystemWipe(trace[k])

\* C29: the unlock is issued only when the lock-state query just made
\* returned without error and reported the bootloader locked; after a
\* failed query or a report of unlocked the run never issues it.
C29_UnlockOnlyWhenKnownLocked ==
    \A j \in Idx :
        trace[j].op = "fastboot.Unlock"
        => /\ j > 1
           /\ trace[j - 1].op = "fastboot.Unlocked"
           /\ trace[j - 1].ok
           /\ trace[j - 1].res = "false"

====
